---- MODULE Spec2Model ----
(***************************************************************************)
(* Shapefile ingestion of the land-parcel backend: the upload endpoint,    *)
(* the process_shapefile worker task, the record store session it writes   *)
(* through, the job queue's task state, the staged files, the job-info     *)
(* cache entry and the job-status endpoint.                                *)
(*                                                                         *)
(* One ingestion job is followed from upload to its end.  The worker and   *)
(* the request handlers are separate processes, so their steps interleave. *)
(***************************************************************************)
EXTENDS Integers, Sequences, FiniteSets, TLC

\* Largest number of features in an uploaded dataset.
MaxFeatures == 3

\* Identities that call the endpoints.
Users == {"u1", "u2"}

\* What a feature of a dataset is, as far as process_shapefile can tell them
\* apart: "valid" (simple polygon, convertible attributes), "selfint" (a
\* self-intersecting polygon, attributes convertible), "raises" (an attribute
\* float() cannot convert, so building PlotCreate raises).
FeatureKinds == {"valid", "selfint", "raises"}

Malformed(kind) == kind \in {"selfint", "raises"}

RECURSIVE SeqsOfLen(_)
SeqsOfLen(n) ==
    IF n = 0 THEN {<<>>}
    ELSE {Append(s, k) : s \in SeqsOfLen(n - 1), k \in FeatureKinds}

FeatureSeqs == UNION {SeqsOfLen(n) : n \in 0..MaxFeatures}

\* A dataset: the .shp either opens as a feature collection or does not.
Datasets ==
    {[openable |-> FALSE, features |-> <<>>]}
        \cup {[openable |-> TRUE, features |-> s] : s \in FeatureSeqs}

\* The only job followed; its queue id and its upload directory.
TaskId == "t1"
UploadId == "up1"
TaskKey == "shapefile_task:" \o TaskId

EmptyDict == <<>>

\* dict.update: the keys of u replace or extend those of r.
Merge(r, u) ==
    [k \in DOMAIN r \cup DOMAIN u |-> IF k \in DOMAIN u THEN u[k] ELSE r[k]]

\* dict with key k set to v.
Put(d, k, v) == Merge(d, [x \in {k} |-> v])

\* dict without key k.
Drop(d, k) == [x \in DOMAIN d \ {k} |-> d[x]]

VARIABLES
    upc,          \* upload_shapefile: "idle", "staged", "accepted", "rejected",
                  \* "refused" (a file name without its extension)
    upload_exc,   \* the exception raised inside the try block of the upload
    upload_answer, \* what upload_shapefile answered: [code, detail]
    pool_busy,    \* every worker of the pool is executing some other task
    plots,        \* the plots table as the geo queries see it: id -> row
    qreq,         \* the last geo query received
    qexc,         \* the exception caught by the handler of that query
    qans,         \* what the handler answered: [code, ids, detail]
    rstore,       \* the cache store: key -> [text, expires_at]
    now,          \* the clock of the cache store, in seconds
    written,      \* per key, the value last set and not since deleted
    rret,         \* the last call of the cache client: what set or delete
                  \* returned (done), what get returned (out)
    sreq,         \* the last statistics request
    sans,         \* what get_geo_statistics answered: [code, body]
    dataset,      \* the uploaded dataset
    owner,        \* current_user.id of the upload
    file_paths,   \* keys of the file_paths dict: the staged files of the upload
    fs,           \* staged files that exist on the filesystem
    cache,        \* the Redis key/value store, as a dict
    celery,       \* the queue's record of the task: [state, info]
    wpc,          \* process_shapefile: position of the worker in the task
    total_features,
    processed,
    created_plots,
    error,        \* str(e) of the exception being handled
    result,       \* the dict the task is about to return
    pending,      \* Session: added, not committed
    committed,    \* plots table: what every other session reads
    progress_log, \* progress values written with update_state, in order
    ppc,          \* get_shapefile_status: "idle" or "branch"
    response,     \* the response dict the handler is building
    answer,       \* the last answer of get_shapefile_status: [code, body]
    terminal_reported, \* first 200 answer with a terminal status, and
                       \* whether a later 200 answer followed
    active_connections, \* ConnectionManager.active_connections of the
                        \* originating server instance, in list order
    user_connections,   \* ConnectionManager.user_connections: user -> socket
    transport,    \* per socket: "new", "open" or "closed"
    hpc,          \* per socket, its endpoint handler: "none", "loop",
                  \* "done" (returned) or "died" (left by an exception)
    subscribed,   \* sockets whose /ws/plots handler holds a subscription
    pubq,         \* per socket, the channel messages waiting in its pubsub
    inbox,        \* per socket, what the client received: the texts of
                  \* updates, and the counts of pongs and personal messages
    ping,         \* the ping a client sent: [conn, state]
    channel_up,   \* whether the Redis server answers
    bpc,          \* broadcast_plot_update: "idle", "sending" or "publish"
    bidx,         \* broadcast: index of the list iterator
    disconnected, \* broadcast: the local list of failed connections
    battempted,   \* broadcast: the connections the loop has fetched, in order
    bstart,       \* sockets open when the update was accepted
    updates,      \* number of updates accepted so far
    plot_numbers, \* the plot_number values of the rows of the plots table
    npc,          \* an ingestion over features without PLOT_NUM: "idle",
                  \* "loop" or "ended"
    ntotal,       \* its total_features
    nprocessed,   \* its processed
    noutcome,     \* the dict it returned: [status, message]
    njobs         \* number of such ingestions started so far

vars ==
    <<plots, qreq, qexc, qans, rstore, now, written, rret, sreq, sans,
      upc, upload_exc, upload_answer, pool_busy, dataset, owner, file_paths,
      fs, cache, celery, wpc, total_features,
      processed, created_plots, error, result, pending, committed,
      progress_log, ppc, response, answer, terminal_reported,
      active_connections, user_connections, transport, hpc, subscribed, pubq,
      inbox, ping, channel_up, bpc, bidx, disconnected, battempted, bstart,
      updates, plot_numbers, npc, ntotal, nprocessed, noutcome, njobs>>

uploadVars ==
    <<upc, upload_exc, upload_answer, pool_busy, dataset, owner, file_paths>>
workerVars ==
    <<wpc, total_features, processed, created_plots, error, result>>
dbVars == <<pending, committed>>
pollVars == <<ppc, response, answer, terminal_reported>>

NoDataset == [openable |-> FALSE, features |-> <<>>]

NoException == [type |-> "none"]

queryVars == <<plots, qreq, qexc, qans>>

wsVars ==
    <<active_connections, user_connections, transport, hpc, subscribed, pubq,
      inbox, ping, channel_up, bpc, bidx, disconnected, battempted, bstart,
      updates>>

cacheVars == <<rstore, now, written, rret, sreq, sans>>

numVars == <<plot_numbers, npc, ntotal, nprocessed, noutcome, njobs>>

NoOutcome == [status |-> "", message |-> ""]

\* What the ingestion, upload and polling steps leave alone.
sideVars == <<queryVars, cacheVars, wsVars, numVars>>

NoCall == [op |-> "none"]

\* Python's None as a value of the cache client.
None == [py |-> "NoneType", v |-> [none |-> TRUE]]

NoQuery == [op |-> "none"]

NoAnswer == [code |-> 0, ids |-> {}, detail |-> ""]

\* The sockets: a and s are clients of /ws, b and t of /ws/plots; a and b
\* are served by the instance that accepts the updates, s and t by a sibling
\* instance, whose own ConnectionManager no update of this instance reaches.
Conns == {"a", "b", "s", "t"}

LocalConns == {"a", "b"}

Endpoint(c) == IF c \in {"b", "t"} THEN "/ws/plots" ELSE "/ws"

\* user_id=None of connect and disconnect.
NoUser == ""

UserIds == {NoUser, "u1"}

NoPing == [conn |-> "", state |-> "none"]

Init ==
    /\ plots = EmptyDict
    /\ qreq = NoQuery
    /\ qexc = NoException
    /\ qans = NoAnswer
    /\ rstore = EmptyDict
    /\ now = 0
    /\ written = EmptyDict
    /\ rret = NoCall
    /\ sreq = NoQuery
    /\ sans = [code |-> 0, body |-> None]
    /\ upc = "idle"
    /\ upload_exc = NoException
    /\ upload_answer = [code |-> 0, detail |-> ""]
    /\ pool_busy \in BOOLEAN
    /\ dataset = NoDataset
    /\ owner = "u1"
    /\ file_paths = {}
    /\ fs = {}
    /\ cache = EmptyDict
    /\ celery = [state |-> "PENDING", info |-> EmptyDict]
    /\ wpc = "none"
    /\ total_features = 0
    /\ processed = 0
    /\ created_plots = <<>>
    /\ error = ""
    /\ result = EmptyDict
    /\ pending = {}
    /\ committed = {}
    /\ progress_log = <<>>
    /\ ppc = "idle"
    /\ response = EmptyDict
    /\ answer = [code |-> 0, body |-> EmptyDict]
    /\ terminal_reported = [seen |-> FALSE, body |-> EmptyDict, again |-> FALSE]
    /\ active_connections = <<>>
    /\ user_connections = EmptyDict
    /\ transport = [c \in Conns |-> "new"]
    /\ hpc = [c \in Conns |-> "none"]
    /\ subscribed = {}
    /\ pubq = [c \in Conns |-> <<>>]
    /\ inbox = [c \in Conns |->
                   [texts |-> <<>>, pongs |-> 0, personal |-> 0]]
    /\ ping = NoPing
    /\ channel_up = TRUE
    /\ bpc = "idle"
    /\ bidx = 0
    /\ disconnected = <<>>
    /\ battempted = <<>>
    /\ bstart = {}
    /\ updates = 0
    /\ plot_numbers = {}
    /\ npc = "idle"
    /\ ntotal = 0
    /\ nprocessed = 0
    /\ noutcome = NoOutcome
    /\ njobs = 0


(***************************************************************************)
(* upload_shapefile                                                        *)
(***************************************************************************)

\* A validation that finds every staged file set valid.
validate_shapefile_always_valid(paths, files, ds) ==
    [valid |-> TRUE, feature_count |-> Len(ds.features),
     error |-> "not recognized as a supported file format"]

\* validate_shapefile: the metadata of the dataset, or why it is invalid.
validate_shapefile(paths, files, ds) ==
    IF "shp" \notin paths \/ "shp" \notin files
    THEN [valid |-> FALSE, error |-> "Shapefile (.shp) not found"]
    ELSE IF ~ds.openable
    THEN [valid |-> FALSE, error |-> "not recognized as a supported file format"]
    ELSE [valid |-> TRUE, feature_count |-> Len(ds.features)]

\* shutil.rmtree(upload_dir): every staged file of the upload is removed.
rmtree(files, paths) == files \ paths

\* RedisClient.set: stores the value unless the store is unreachable.
redis_set(store, reachable, key, value) ==
    IF reachable THEN Put(store, key, value) ELSE store

\* RedisClient.get: the value, or None (here the empty dict) when the key is
\* absent or the store unreachable.
redis_get(store, reachable, key) ==
    IF reachable /\ key \in DOMAIN store THEN store[key] ELSE EmptyDict

\* Lines 42-71: the upload directory is created and the files are written.
UploadStage(ds, user, withPrj) ==
    /\ upc = "idle"
    /\ upc' = "staged"
    /\ dataset' = ds
    /\ owner' = user
    /\ file_paths' = {"shp", "dbf"} \cup (IF withPrj THEN {"prj"} ELSE {})
    /\ fs' = fs \cup file_paths'
    /\ UNCHANGED <<upload_exc, upload_answer, pool_busy, cache, celery,
                   workerVars, dbVars, progress_log, pollVars>>
    /\ UNCHANGED sideVars

\* Lines 34-40: a file whose name lacks its extension is refused before
\* anything is staged; the exception is raised outside the try block.
UploadBadExtension ==
    /\ upc = "idle"
    /\ upc' = "refused"
    /\ upload_answer' = [code |-> 400, detail |-> "Invalid .shp file"]
    /\ UNCHANGED <<upload_exc, pool_busy, dataset, owner, file_paths, fs,
                   cache, celery, workerVars, dbVars, progress_log, pollVars>>
    /\ UNCHANGED sideVars

\* Lines 107-112: the handler of the try block answers every exception, the
\* HTTPException of line 78 included, with a 500 carrying str(e).
upload_except(e) == [code |-> 500, detail |-> e.detail]

\* Lines 73-112: validation (waited for at most 30 s), then either the job is
\* submitted and its info cached, or the exception handler removes the upload
\* directory.  timely = FALSE is the wait running out; validate_shapefile is
\* itself a task of the queue, so its result can only arrive when a worker
\* is free to execute it.
UploadSubmit(timely, redisUp) ==
    /\ upc = "staged"
    /\ timely => ~pool_busy
    /\ LET validation_data == validate_shapefile(file_paths, fs, dataset)
           raised ==
               IF ~timely
               THEN [type |-> "TimeoutError",
                     detail |-> "The operation timed out."]
               ELSE [type |-> "HTTPException", status_code |-> 400,
                     detail |-> "Invalid shapefile: " \o validation_data.error]
       IN IF timely /\ validation_data.valid
          THEN /\ upc' = "accepted"
               /\ wpc' = "queued"
               /\ cache' = redis_set(cache, redisUp, TaskKey,
                                     [task_id |-> TaskId, user_id |-> owner,
                                      upload_id |-> UploadId])
               /\ fs' = fs
               /\ upload_exc' = upload_exc
               /\ upload_answer' = [code |-> 200, detail |-> "PROCESSING"]
          ELSE /\ upc' = "rejected"
               /\ fs' = rmtree(fs, file_paths)
               /\ upload_exc' = raised
               /\ upload_answer' = upload_except(raised)
               /\ UNCHANGED <<wpc, cache>>
    /\ UNCHANGED <<pool_busy, dataset, owner, file_paths, celery, total_features,
                   processed, created_plots, error, result, dbVars,
                   progress_log, pollVars>>
    /\ UNCHANGED sideVars

\* Other tasks take every worker of the pool (ingestion jobs of other
\* uploads), and later end.
OtherJobsOccupy ==
    /\ ~pool_busy
    /\ pool_busy' = TRUE
    /\ UNCHANGED <<upc, upload_exc, upload_answer, dataset, owner, file_paths,
                   fs, cache, celery, workerVars, dbVars, progress_log,
                   pollVars>>
    /\ UNCHANGED sideVars

OtherJobsEnd ==
    /\ pool_busy
    /\ pool_busy' = FALSE
    /\ UNCHANGED <<upc, upload_exc, upload_answer, dataset, owner, file_paths,
                   fs, cache, celery, workerVars, dbVars, progress_log,
                   pollVars>>
    /\ UNCHANGED sideVars

\* The job-info entry outlives its 3600 s and the store drops it.
ExpireTaskInfo ==
    /\ TaskKey \in DOMAIN cache
    /\ cache' = Drop(cache, TaskKey)
    /\ UNCHANGED <<uploadVars, fs, celery, workerVars, dbVars, progress_log,
                   pollVars>>
    /\ UNCHANGED sideVars

(***************************************************************************)
(* process_shapefile, the worker task                                      *)
(***************************************************************************)

\* current_task.update_state(state='PROGRESS', meta=...)
update_state(meta) == [state |-> "PROGRESS", info |-> meta]

\* int((processed / total_features) * 100)
progress_percent(done, total) == (done * 100) \div total

\* create_plot on a session [pending, committed]: the row is added and the
\* session committed at once.  ok = FALSE is the store refusing the write: the
\* exception leaves the row in the session, uncommitted.
create_plot(db, plot, ok) ==
    IF ok
    THEN [pending |-> {}, committed |-> db.committed \cup db.pending \cup {plot}]
    ELSE [pending |-> db.pending \cup {plot}, committed |-> db.committed]

\* cleanup_files that removes the .shp alone and forgets its companions.
cleanup_files_shp_only(files, paths) == files \ (paths \cap {"shp"})

\* cleanup_files: each path of the dict that exists is removed.
cleanup_files(files, paths) == files \ paths

\* The row built from feature number n of the dataset.
PlotOf(n) ==
    [id |-> n, geom |-> dataset.features[n], uploaded_by_id |-> owner]

\* The task started again after it has returned (a second delivery of the
\* same message).
ProcessStartRedelivered ==
    /\ wpc \in {"queued", "done"}
    /\ ~pool_busy
    /\ celery' = update_state([progress |-> 0,
                               status |-> "Starting shapefile processing"])
    /\ progress_log' = Append(progress_log, 0)
    /\ wpc' = "open"
    /\ UNCHANGED <<uploadVars, fs, cache, total_features, processed,
                   created_plots, error, result, dbVars, pollVars>>
    /\ UNCHANGED sideVars

\* Line 57: the task starts in a worker.
ProcessStart ==
    /\ wpc = "queued"
    /\ ~pool_busy
    /\ celery' = update_state([progress |-> 0,
                               status |-> "Starting shapefile processing"])
    /\ progress_log' = Append(progress_log, 0)
    /\ wpc' = "open"
    /\ UNCHANGED <<uploadVars, fs, cache, total_features, processed,
                   created_plots, error, result, dbVars, pollVars>>
    /\ UNCHANGED sideVars

\* Lines 59-69: the .shp is looked up and opened, the session created.
ProcessOpen ==
    /\ wpc = "open"
    /\ IF "shp" \notin file_paths \/ "shp" \notin fs
       THEN /\ error' = "Shapefile (.shp) not found"
            /\ wpc' = "except"
            /\ UNCHANGED <<total_features, processed, created_plots>>
       ELSE IF ~dataset.openable
       THEN /\ error' = "not recognized as a supported file format"
            /\ wpc' = "except"
            /\ UNCHANGED <<total_features, processed, created_plots>>
       ELSE /\ total_features' = Len(dataset.features)
            /\ processed' = 0
            /\ created_plots' = <<>>
            /\ wpc' = "loop"
            /\ error' = error
    /\ UNCHANGED <<uploadVars, fs, cache, celery, result, dbVars,
                   progress_log, pollVars>>
    /\ UNCHANGED sideVars

\* Lines 72-81: the next feature is taken and the progress written.
ProcessProgress ==
    /\ wpc = "loop"
    /\ processed < total_features
    /\ LET progress == progress_percent(processed, total_features)
       IN /\ celery' = update_state(
                 [progress |-> progress,
                  status |-> "Processing feature " \o ToString(processed + 1)
                             \o " of " \o ToString(total_features)])
          /\ progress_log' = Append(progress_log, progress)
    /\ wpc' = "feature"
    /\ UNCHANGED <<uploadVars, fs, cache, total_features, processed,
                   created_plots, error, result, dbVars, pollVars>>
    /\ UNCHANGED sideVars

\* Lines 83-102: the feature becomes a PlotCreate and create_plot stores it.
\* An exception of either goes to the handler of line 116.
ProcessFeature(storeOk) ==
    /\ wpc = "feature"
    /\ IF dataset.features[processed + 1] = "raises"
       THEN /\ error' = "could not convert string to float"
            /\ wpc' = "rollback"
            /\ UNCHANGED <<processed, created_plots, dbVars>>
       ELSE LET db == create_plot([pending |-> pending, committed |-> committed],
                                  PlotOf(processed + 1), storeOk)
            IN /\ pending' = db.pending
               /\ committed' = db.committed
               /\ IF storeOk
                  THEN /\ created_plots' = Append(created_plots, processed + 1)
                       /\ processed' = processed + 1
                       /\ wpc' = "loop"
                       /\ error' = error
                  ELSE /\ error' = "store error"
                       /\ wpc' = "rollback"
                       /\ UNCHANGED <<processed, created_plots>>
    /\ UNCHANGED <<uploadVars, fs, cache, celery, total_features, result,
                   progress_log, pollVars>>
    /\ UNCHANGED sideVars

\* Lines 116-120: db.rollback(), re-raise, db.close().
ProcessRollback ==
    /\ wpc = "rollback"
    /\ pending' = {}
    /\ wpc' = "except"
    /\ UNCHANGED <<uploadVars, fs, cache, celery, total_features, processed,
                   created_plots, error, result, committed, progress_log,
                   pollVars>>
    /\ UNCHANGED sideVars

\* Lines 104-114: after the last feature, db.commit(), cleanup_files and the
\* dict to return.
ProcessCommit ==
    /\ wpc = "loop"
    /\ processed = total_features
    /\ committed' = committed \cup pending
    /\ pending' = {}
    /\ fs' = cleanup_files(fs, file_paths)
    /\ result' = [status |-> "SUCCESS",
                  message |-> "Successfully processed " \o ToString(processed)
                              \o " plots from shapefile",
                  created_plots |-> created_plots,
                  total_processed |-> processed]
    /\ wpc' = "returning"
    /\ UNCHANGED <<uploadVars, cache, celery, total_features, processed,
                   created_plots, error, progress_log, pollVars>>
    /\ UNCHANGED sideVars

\* Lines 122-130: the outer handler: cleanup_files and the dict to return.
ProcessExcept ==
    /\ wpc = "except"
    /\ fs' = cleanup_files(fs, file_paths)
    /\ result' = [status |-> "FAILURE", message |-> error,
                  created_plots |-> <<>>, total_processed |-> 0]
    /\ wpc' = "returning"
    /\ UNCHANGED <<uploadVars, cache, celery, total_features, processed,
                   created_plots, error, dbVars, progress_log, pollVars>>
    /\ UNCHANGED sideVars

\* The task function returns: the queue records the returned dict as the
\* result of a task that succeeded.
ProcessReturn ==
    /\ wpc = "returning"
    /\ celery' = [state |-> "SUCCESS", info |-> result]
    /\ wpc' = "done"
    /\ UNCHANGED <<uploadVars, fs, cache, total_features, processed,
                   created_plots, error, result, dbVars, progress_log,
                   pollVars>>
    /\ UNCHANGED sideVars

Executing == wpc \in {"open", "loop", "feature", "rollback", "except", "returning"}

\* The worker dies while it executes the task: nothing of the task runs any
\* more, no handler and no write of the task state.
WorkerCrash ==
    /\ Executing
    /\ wpc' = "crashed"
    /\ UNCHANGED <<uploadVars, fs, cache, celery, total_features, processed,
                   created_plots, error, result, dbVars, progress_log,
                   pollVars>>
    /\ UNCHANGED sideVars

(***************************************************************************)
(* get_shapefile_status                                                    *)
(***************************************************************************)

TerminalStatuses == {"SUCCESS", "FAILURE"}

\* Lines 143-150: what the branch on the task's state adds to the response.
\* task is the queue's record as read at that moment.
status_branch(resp, task) ==
    IF task.state = "PENDING"
    THEN Put(resp, "message", "Task is waiting to be processed")
    ELSE IF task.state = "PROGRESS" THEN Merge(resp, task.info)
    ELSE IF task.state = "SUCCESS" THEN Merge(resp, task.info)
    ELSE IF task.state = "FAILURE" THEN Put(resp, "error", task.info)
    ELSE resp

\* The first 200 answer with a terminal status is kept; a later 200 answer
\* is noted.
Reported(seen, body) ==
    IF seen.seen THEN [seen EXCEPT !.again = TRUE]
    ELSE IF body.status \in TerminalStatuses
    THEN [seen |-> TRUE, body |-> body, again |-> FALSE]
    ELSE seen

\* A poll that builds the response for whoever asks, without comparing the
\* caller with the user_id of the job info.
PollBegin_any_caller(user, redisUp) ==
    /\ ppc = "idle"
    /\ LET task_info == redis_get(cache, redisUp, TaskKey)
       IN IF task_info = EmptyDict
          THEN /\ answer' = [code |-> 404, body |-> [detail |-> "Task not found"]]
               /\ UNCHANGED <<ppc, response>>
          ELSE /\ response' = [task_id |-> TaskId, status |-> celery.state,
                               upload_id |-> task_info.upload_id]
               /\ ppc' = "branch"
               /\ answer' = answer
    /\ UNCHANGED <<uploadVars, fs, cache, celery, workerVars, dbVars,
                   progress_log, terminal_reported>>
    /\ UNCHANGED sideVars

\* Lines 124-141: the job info is read from the cache, the caller checked
\* against the owner, and the response started with the task's status.
PollBegin(user, redisUp) ==
    /\ ppc = "idle"
    /\ LET task_info == redis_get(cache, redisUp, TaskKey)
       IN IF task_info = EmptyDict
          THEN /\ answer' = [code |-> 404, body |-> [detail |-> "Task not found"]]
               /\ UNCHANGED <<ppc, response>>
          ELSE IF task_info.user_id # user
          THEN /\ answer' = [code |-> 403, body |-> [detail |-> "Access denied"]]
               /\ UNCHANGED <<ppc, response>>
          ELSE /\ response' = [task_id |-> TaskId, status |-> celery.state,
                               upload_id |-> task_info.upload_id]
               /\ ppc' = "branch"
               /\ answer' = answer
    /\ UNCHANGED <<uploadVars, fs, cache, celery, workerVars, dbVars,
                   progress_log, terminal_reported>>
    /\ UNCHANGED sideVars

\* Lines 143-152: the task's state is read again for the branch, and the
\* response returned.
PollFinish ==
    /\ ppc = "branch"
    /\ LET body == status_branch(response, celery)
       IN /\ answer' = [code |-> 200, body |-> body]
          /\ terminal_reported' = Reported(terminal_reported, body)
    /\ response' = EmptyDict
    /\ ppc' = "idle"
    /\ UNCHANGED <<uploadVars, fs, cache, celery, workerVars, dbVars,
                   progress_log>>
    /\ UNCHANGED sideVars

(***************************************************************************)
(* The system                                                              *)
(***************************************************************************)

Next ==
    \/ \E ds \in Datasets, user \in Users, withPrj \in BOOLEAN :
           UploadStage(ds, user, withPrj)
    \/ UploadBadExtension
    \/ \E timely \in BOOLEAN, redisUp \in BOOLEAN : UploadSubmit(timely, redisUp)
    \/ OtherJobsOccupy
    \/ OtherJobsEnd
    \/ ExpireTaskInfo
    \/ ProcessStart
    \/ ProcessOpen
    \/ ProcessProgress
    \/ \E storeOk \in BOOLEAN : ProcessFeature(storeOk)
    \/ ProcessRollback
    \/ ProcessCommit
    \/ ProcessExcept
    \/ ProcessReturn
    \/ WorkerCrash
    \/ \E user \in Users, redisUp \in BOOLEAN : PollBegin(user, redisUp)
    \/ PollFinish

Spec == Init /\ [][Next]_vars

\* The worker, while alive, keeps executing its task; a status poll that
\* has read the job info goes on to answer.  A crash is never forced.
WorkerNext ==
    \/ ProcessStart
    \/ ProcessOpen
    \/ ProcessProgress
    \/ \E storeOk \in BOOLEAN : ProcessFeature(storeOk)
    \/ ProcessRollback
    \/ ProcessCommit
    \/ ProcessExcept
    \/ ProcessReturn

FairSpec == Spec /\ WF_vars(WorkerNext) /\ WF_vars(PollFinish)

(***************************************************************************)
(* The geo queries: get_plots_in_area and get_plots_near_point, over the   *)
(* plots table as the plot endpoints maintain it.  A parcel is located by  *)
(* one point; coordinates are <<lng, lat>> in units of 1/111 degree, the   *)
(* length both radius paths take for one kilometre.                       *)
(***************************************************************************)

MaxPlots == 2

PlotIds == 1..MaxPlots

PlotStatuses == {"available", "locked", "pending_payment", "sold"}

Positions == {<<1, 1>>, <<3, 1>>, <<1, 3>>, <<20, 1>>}

Square == <<<<0, 0>>, <<4, 0>>, <<4, 4>>, <<0, 4>>>>

Triangle == <<<<0, 0>>, <<4, 0>>, <<4, 4>>>>

\* The same triangle walked the other way round.
TriangleReversed == <<<<4, 4>>, <<4, 0>>, <<0, 0>>>>

UpperTriangle == <<<<0, 0>>, <<4, 4>>, <<0, 4>>>>

\* A triangle that is sent already closed.
ClosedTriangle == <<<<0, 0>>, <<4, 0>>, <<4, 4>>, <<0, 0>>>>

\* Rings of fewer than three distinct points.
FlatRings ==
    {<<>>,
     <<<<0, 0>>>>,
     <<<<0, 0>>, <<4, 0>>>>,
     <<<<0, 0>>, <<0, 0>>, <<4, 4>>>>,
     <<<<0, 0>>, <<4, 4>>, <<0, 0>>>>}

\* The rings a caller sends.
Rings ==
    FlatRings
        \cup {Square, Triangle, TriangleReversed, UpperTriangle, ClosedTriangle}

Centres == {<<1, 1>>, <<3, 2>>}

Radii == {2, 10, 11}

Limits == {1, 2}

coreVars ==
    <<uploadVars, fs, cache, celery, workerVars, dbVars, progress_log, pollVars>>

\* What the plot endpoints and the geo queries leave alone.
ingestVars == <<coreVars, cacheVars, wsVars, numVars>>

Points(ring) == {ring[i] : i \in DOMAIN ring}

Cross(a, b, p) ==
    (b[1] - a[1]) * (p[2] - a[2]) - (b[2] - a[2]) * (p[1] - a[1])

\* Line 165: the WKT text lists the coordinates as given and then the first
\* one again, whether or not the ring came closed.
polygon_wkt(polygon_coords) == polygon_coords \o <<polygon_coords[1]>>

\* ST_GeomFromText accepts a polygon ring of at least four points whose
\* last point is its first.
ST_GeomFromText_ok(wkt) == Len(wkt) >= 4 /\ wkt[1] = wkt[Len(wkt)]

\* ST_Within of a parcel in a convex polygon: the parcel lies strictly on
\* one side of every edge; an edge from a point to itself has no side.
ST_Within(p, poly) ==
    LET edges == {i \in 1..(Len(poly) - 1) : poly[i] # poly[i + 1]}
    IN \/ \A i \in edges : Cross(poly[i], poly[i + 1], p) > 0
       \/ \A i \in edges : Cross(poly[i], poly[i + 1], p) < 0

\* The WHERE clause of lines 171-176 without its status condition.
area_rows_any_status(table, poly) ==
    {id \in DOMAIN table : ST_Within(table[id].at, poly)}

\* The WHERE clause of lines 171-176.
area_rows(table, poly) ==
    {id \in DOMAIN table :
        ST_Within(table[id].at, poly) /\ table[id].status = "available"}

\* Lines 199-200 and 258-259: every exception becomes a 500 with str(e).
query_except(e) == [code |-> 500, ids |-> {}, detail |-> e.detail]

Dist2(p, c) ==
    (p[1] - c[1]) * (p[1] - c[1]) + (p[2] - c[2]) * (p[2] - c[2])

ST_DWithin(p, c, radius) == Dist2(p, c) <= radius * radius

Smaller(a, b) == IF a <= b THEN a ELSE b

\* LIMIT without ORDER BY: any rows, as many as the limit allows.
limit_any(rows, limit) ==
    {t \in SUBSET rows : Cardinality(t) = Smaller(limit, Cardinality(rows))}

\* ORDER BY ST_Distance ... LIMIT: the nearest rows; rows at the same
\* distance come in either order.
order_by_distance_limit(rows, table, c, limit) ==
    {t \in limit_any(rows, limit) :
        \A a \in t, b \in rows \ t :
            Dist2(table[a].at, c) <= Dist2(table[b].at, c)}

\* geo_tasks.find_plots_in_radius: the ids within the radius, or [] when
\* the store raises.
find_plots_in_radius(table, c, radius_km, storeOk) ==
    IF storeOk
    THEN {id \in DOMAIN table : ST_DWithin(table[id].at, c, radius_km)}
    ELSE {}

\* Lines 215-222: the answers the job path can give.
job_path(table, c, radius_km, limit, storeOk) ==
    limit_any(find_plots_in_radius(table, c, radius_km, storeOk), limit)

\* Lines 224-247: the answers the direct path can give.
direct_path(table, c, radius_km, limit) ==
    order_by_distance_limit(
        {id \in DOMAIN table :
            /\ ST_DWithin(table[id].at, c, radius_km)
            /\ table[id].status = "available"},
        table, c, limit)

\* plots.py create endpoint / crud_plot.create_plot: a new committed row.
\* PlotCreate carries no status, so the row gets the column's default.
PlotCreate(id, at) ==
    /\ id \notin DOMAIN plots
    /\ plots' = Put(plots, id, [status |-> "available", at |-> at])
    /\ UNCHANGED <<qreq, qexc, qans, ingestVars>>

\* crud_plot.update_plot_status.
UpdatePlotStatus(id, st) ==
    /\ id \in DOMAIN plots
    /\ plots' = [plots EXCEPT ![id].status = st]
    /\ UNCHANGED <<qreq, qexc, qans, ingestVars>>

\* crud_plot.delete_plot.
DeletePlot(id) ==
    /\ id \in DOMAIN plots
    /\ plots' = Drop(plots, id)
    /\ UNCHANGED <<qreq, qexc, qans, ingestVars>>

\* get_plots_in_area.  An empty ring fails at polygon_coords[0]; a text the
\* store cannot read as a polygon, or a store that is down, fails at
\* db.execute; a ring of fewer than three distinct points that does parse is
\* a polygon without interior, for which the store either raises or finds
\* no parcel within.
get_plots_in_area(polygon_coords, storeOk, flatRaises) ==
    IF polygon_coords = <<>>
    THEN /\ qreq' = [op |-> "area", ring |-> polygon_coords, sent |-> FALSE]
         /\ qexc' = [type |-> "IndexError",
                     detail |-> "list index out of range"]
         /\ qans' = query_except(qexc')
         /\ UNCHANGED <<plots, ingestVars>>
    ELSE LET wkt == polygon_wkt(polygon_coords)
             flat == Cardinality(Points(wkt)) < 3
         IN /\ qreq' = [op |-> "area", ring |-> polygon_coords, sent |-> TRUE]
            /\ IF ~storeOk \/ ~ST_GeomFromText_ok(wkt) \/ (flat /\ flatRaises)
               THEN /\ qexc' = [type |-> "DatabaseError",
                                detail |-> "(psycopg2.errors.InternalError_)"]
                    /\ qans' = query_except(qexc')
               ELSE /\ qexc' = NoException
                    /\ qans' = [code |-> 200, ids |-> area_rows(plots, wkt),
                                detail |-> ""]
            /\ UNCHANGED <<plots, ingestVars>>

\* get_plots_near_point.  timely = FALSE is the wait of line 217 running
\* out; the task needs a free worker to run at all.
get_plots_near_point(c, radius_km, limit, timely, storeOk) ==
    /\ timely => ~pool_busy
    /\ IF radius_km > 10
       THEN /\ qreq' = [op |-> "near", centre |-> c, radius_km |-> radius_km,
                        limit |-> limit, path |-> "job", sent |-> TRUE]
            /\ IF ~timely
               THEN /\ qexc' = [type |-> "TimeoutError",
                                detail |-> "The operation timed out."]
                    /\ qans' = query_except(qexc')
               ELSE /\ qexc' = NoException
                    /\ \E t \in job_path(plots, c, radius_km, limit, storeOk) :
                           qans' = [code |-> 200, ids |-> t, detail |-> ""]
       ELSE /\ qreq' = [op |-> "near", centre |-> c, radius_km |-> radius_km,
                        limit |-> limit, path |-> "direct", sent |-> TRUE]
            /\ IF ~storeOk
               THEN /\ qexc' = [type |-> "DatabaseError",
                                detail |-> "(psycopg2.OperationalError)"]
                    /\ qans' = query_except(qexc')
               ELSE /\ qexc' = NoException
                    /\ \E t \in direct_path(plots, c, radius_km, limit) :
                           qans' = [code |-> 200, ids |-> t, detail |-> ""]
    /\ UNCHANGED <<plots, ingestVars>>

QueryArea ==
    \E ring \in Rings, storeOk \in BOOLEAN, flatRaises \in BOOLEAN :
        get_plots_in_area(ring, storeOk, flatRaises)

QueryNear ==
    \E c \in Centres, r \in Radii, limit \in Limits,
       timely \in BOOLEAN, storeOk \in BOOLEAN :
        get_plots_near_point(c, r, limit, timely, storeOk)

QueryNext ==
    \/ \E id \in PlotIds, at \in Positions : PlotCreate(id, at)
    \/ \E id \in PlotIds, st \in PlotStatuses : UpdatePlotStatus(id, st)
    \/ \E id \in PlotIds : DeletePlot(id)
    \/ QueryArea
    \/ QueryNear
    \/ OtherJobsOccupy
    \/ OtherJobsEnd

QuerySpec == Init /\ [][QueryNext]_vars

(***************************************************************************)
(* RedisClient (core/redis.py) over a store whose entries expire, and      *)
(* get_geo_statistics on top of it.  A Python value is [py, v]: its type    *)
(* and its content, a record; a JSON text is [json, v]: the kind of JSON    *)
(* value it spells and that value.                                         *)
(***************************************************************************)

MaxClock == 600

ClockStep == 300

Ttls == {300, 600}

StatsTtl == 300

CacheKeys == {"geo_stats:all", "geo_stats:loc1"}

PyDict(d) == [py |-> "dict", v |-> d]

\* The values a caller hands to set: a payload, a tuple, and a value JSON
\* has no spelling for.
PyValues ==
    {PyDict([total_plots |-> 1]),
     [py |-> "tuple", v |-> [items |-> <<1, 2>>]],
     [py |-> "datetime", v |-> [isoformat |-> "2024-01-01T00:00:00"]]}

\* The Python values that JSON spells and reads back as themselves.
JsonExact(val) == val.py \in {"dict", "list", "int", "str"}

\* json.dumps raises TypeError for a value it cannot serialize.
json_serializable(val) == val.py \in {"dict", "list", "tuple", "int", "str"}

\* json.dumps: lists and tuples alike are written as arrays.
json_dumps(val) ==
    [json |-> CASE val.py \in {"list", "tuple"} -> "array"
                [] val.py = "dict" -> "object"
                [] val.py = "int" -> "number"
                [] OTHER -> "string",
     v |-> val.v]

\* json.loads: an array is read as a list.
json_loads(text) ==
    [py |-> CASE text.json = "array" -> "list"
              [] text.json = "object" -> "dict"
              [] text.json = "number" -> "int"
              [] OTHER -> "str",
     v |-> text.v]

\* The store answers GET with the text of an entry that has not expired.
Live(store, key, t) == key \in DOMAIN store /\ t < store[key].expires_at

\* A get that hands the failure of the store on to its caller.
RedisClient_get_raising(store, up, key, t) ==
    IF up /\ Live(store, key, t)
    THEN [ret |-> json_loads(store[key].text), raised |-> FALSE]
    ELSE [ret |-> None, raised |-> ~up]

\* A get that does not look at the expiry of the entry.
RedisClient_get_unexpiring(store, up, key, t) ==
    IF up /\ key \in DOMAIN store
    THEN [ret |-> json_loads(store[key].text), raised |-> FALSE]
    ELSE [ret |-> None, raised |-> FALSE]

\* RedisClient.get: None without a connection, on any exception and for a
\* missing key; no exception leaves the method.
RedisClient_get(store, up, key, t) ==
    IF up /\ Live(store, key, t)
    THEN [ret |-> json_loads(store[key].text), raised |-> FALSE]
    ELSE [ret |-> None, raised |-> FALSE]

\* A set that hands the failure of the store on to its caller.
RedisClient_set_raising(store, up, key, val, expire, t) ==
    IF up /\ json_serializable(val) /\ expire > 0
    THEN [store |-> Put(store, key, [text |-> json_dumps(val),
                                     expires_at |-> t + expire]),
          ret |-> TRUE, raised |-> FALSE]
    ELSE [store |-> store, ret |-> FALSE, raised |-> ~up]

\* RedisClient.set: SETEX of the JSON text; False without a connection and
\* on any exception, json.dumps' included.
RedisClient_set(store, up, key, val, expire, t) ==
    IF up /\ json_serializable(val) /\ expire > 0
    THEN [store |-> Put(store, key, [text |-> json_dumps(val),
                                     expires_at |-> t + expire]),
          ret |-> TRUE, raised |-> FALSE]
    ELSE [store |-> store, ret |-> FALSE, raised |-> FALSE]

\* RedisClient.delete.
RedisClient_delete(store, up, key) ==
    IF up
    THEN [store |-> Drop(store, key), ret |-> TRUE, raised |-> FALSE]
    ELSE [store |-> store, ret |-> FALSE, raised |-> FALSE]

\* What a call of set or delete on the key leaves to be read back: the
\* value of a set that found the store reachable, until its expiry.
Written(w, up, key, val, expire, t) ==
    IF up THEN Put(w, key, [v |-> val, until |-> t + expire]) ELSE Drop(w, key)

nonCacheVars == <<queryVars, coreVars, wsVars, numVars>>

CacheSet(key, val, expire, up) ==
    LET r == RedisClient_set(rstore, up, key, val, expire, now)
    IN /\ rstore' = r.store
       /\ rret' = [op |-> "set", key |-> key, up |-> up, done |-> r.ret,
                   out |-> None, raised |-> r.raised]
       /\ written' = Written(written, up, key, val, expire, now)
       /\ UNCHANGED <<now, sreq, sans, nonCacheVars>>

CacheGet(key, up) ==
    LET r == RedisClient_get(rstore, up, key, now)
    IN /\ rret' = [op |-> "get", key |-> key, up |-> up, done |-> ~r.raised,
                   out |-> r.ret, raised |-> r.raised]
       /\ UNCHANGED <<rstore, written, now, sreq, sans, nonCacheVars>>

CacheDelete(key, up) ==
    LET r == RedisClient_delete(rstore, up, key)
    IN /\ rstore' = r.store
       /\ rret' = [op |-> "delete", key |-> key, up |-> up, done |-> r.ret,
                   out |-> None, raised |-> r.raised]
       /\ written' = Drop(written, key)
       /\ UNCHANGED <<now, sreq, sans, nonCacheVars>>

\* Time passes.
Tick ==
    /\ now + ClockStep <= MaxClock
    /\ now' = now + ClockStep
    /\ UNCHANGED <<rstore, written, rret, sreq, sans, nonCacheVars>>

CacheNext ==
    \/ \E key \in CacheKeys, val \in PyValues, expire \in Ttls,
          up \in BOOLEAN : CacheSet(key, val, expire, up)
    \/ \E key \in CacheKeys, up \in BOOLEAN : CacheGet(key, up)
    \/ \E key \in CacheKeys, up \in BOOLEAN : CacheDelete(key, up)
    \/ Tick

CacheSpec == Init /\ [][CacheNext]_vars

(***************************************************************************)
(* get_geo_statistics and calculate_plot_statistics.  location_id is       *)
(* Optional[str]: [some, s].  A parcel belongs to the location its         *)
(* position lies in; the payload keeps the counts and leaves out the sums  *)
(* of area and price.                                                      *)
(***************************************************************************)

NoLocation == [some |-> FALSE, s |-> ""]

\* location_id of a statistics request: absent, a location, the literal
\* "all", or empty.
LocFilters ==
    {NoLocation, [some |-> TRUE, s |-> "loc1"], [some |-> TRUE, s |-> "all"],
     [some |-> TRUE, s |-> ""]}

\* Python's truth of an Optional[str]: neither None nor empty.
LocTruthy(loc) == loc.some /\ loc.s # ""

\* Line 271: f"geo_stats:{location_id or 'all'}".
cache_key(loc) == "geo_stats:" \o (IF LocTruthy(loc) THEN loc.s ELSE "all")

\* Plot.location_id of a row.
location_id_of(row) == IF row.at[1] < 2 THEN "loc1" ELSE "loc2"

\* geo_tasks.calculate_plot_statistics: the payload, or {'error': ...} when
\* the store raises.
calculate_plot_statistics(table, loc, storeOk) ==
    IF ~storeOk
    THEN [error |-> "(psycopg2.OperationalError)"]
    ELSE LET rows == IF LocTruthy(loc)
                     THEN {id \in DOMAIN table :
                              location_id_of(table[id]) = loc.s}
                     ELSE DOMAIN table
         IN [total_plots |-> Cardinality(rows),
             available_plots |->
                 Cardinality({id \in rows : table[id].status = "available"}),
             sold_plots |->
                 Cardinality({id \in rows : table[id].status = "sold"})]

\* Python's truth of a value read from the cache (line 274).
Truthy(val) ==
    /\ val.py # "NoneType"
    /\ ~(val.py = "dict" /\ DOMAIN val.v = {})

\* Lines 261-284.  An exception of the handler is answered by the framework
\* with a 500: the handler has no try.  The task is only needed, and a free
\* worker with it, when the cache gave nothing.
get_geo_statistics(loc, upGet, upSet, timely, storeOk) ==
    LET cache_key_ == cache_key(loc)
        cached_stats == RedisClient_get(rstore, upGet, cache_key_, now)
        stats == PyDict(calculate_plot_statistics(plots, loc, storeOk))
        stored == RedisClient_set(rstore, upSet, cache_key_, stats,
                                  StatsTtl, now)
    IN /\ sreq' = [op |-> "statistics", location_id |-> loc]
       /\ IF cached_stats.raised
          THEN /\ sans' = [code |-> 500, body |-> None]
               /\ UNCHANGED <<rstore, written>>
          ELSE IF Truthy(cached_stats.ret)
          THEN /\ sans' = [code |-> 200, body |-> cached_stats.ret]
               /\ UNCHANGED <<rstore, written>>
          ELSE /\ timely => ~pool_busy
               /\ IF ~timely
                  THEN /\ sans' = [code |-> 500, body |-> None]
                       /\ UNCHANGED <<rstore, written>>
                  ELSE /\ rstore' = stored.store
                       /\ written' = Written(written, upSet, cache_key_,
                                             stats, StatsTtl, now)
                       /\ sans' = IF stored.raised
                                  THEN [code |-> 500, body |-> None]
                                  ELSE [code |-> 200, body |-> stats]
       /\ UNCHANGED <<now, rret, nonCacheVars>>

StatsNext ==
    \/ \E at \in {<<1, 1>>, <<3, 1>>} : PlotCreate(1, at)
    \/ \E st \in {"available", "sold"} : UpdatePlotStatus(1, st)
    \/ DeletePlot(1)
    \/ \E loc \in LocFilters, upGet \in BOOLEAN, upSet \in BOOLEAN,
          timely \in BOOLEAN, storeOk \in BOOLEAN :
           get_geo_statistics(loc, upGet, upSet, timely, storeOk)
    \/ Tick

StatsSpec == Init /\ [][StatsNext]_vars

(***************************************************************************)
(* Real-time connections: ConnectionManager, the two websocket endpoints   *)
(* and broadcast_plot_update                                               *)
(***************************************************************************)

MaxUpdates == 1

Range(f) == {f[i] : i \in DOMAIN f}

\* list.remove(x): the list without the first element equal to x.
list_remove(list, x) ==
    LET i == CHOOSE k \in DOMAIN list :
                 list[k] = x /\ \A j \in 1..(k - 1) : list[j] # x
    IN SubSeq(list, 1, i - 1) \o SubSeq(list, i + 1, Len(list))

\* The registry of the instance: both collections of its ConnectionManager.
Registry == [active |-> active_connections, users |-> user_connections]

\* ConnectionManager.connect after accept(): append, and map the identity
\* when one is given.
connect(reg, websocket, user_id) ==
    [active |-> Append(reg.active, websocket),
     users |-> IF user_id # NoUser THEN Put(reg.users, user_id, websocket)
               ELSE reg.users]

\* A removal that does not look before it removes: list.remove and del
\* raise when the element is missing.
disconnect_unguarded(reg, websocket, user_id) ==
    [active |-> IF websocket \in Range(reg.active)
                THEN list_remove(reg.active, websocket) ELSE reg.active,
     users |-> IF user_id # NoUser /\ user_id \in DOMAIN reg.users
               THEN Drop(reg.users, user_id) ELSE reg.users,
     raised |-> \/ websocket \notin Range(reg.active)
                \/ (user_id # NoUser /\ user_id \notin DOMAIN reg.users)]

\* ConnectionManager.disconnect: both removals are guarded by a membership
\* test, so nothing raises.
disconnect(reg, websocket, user_id) ==
    [active |-> IF websocket \in Range(reg.active)
                THEN list_remove(reg.active, websocket) ELSE reg.active,
     users |-> IF user_id # NoUser /\ user_id \in DOMAIN reg.users
               THEN Drop(reg.users, user_id) ELSE reg.users,
     raised |-> FALSE]

\* The second loop of broadcast: self.disconnect(connection), without an
\* identity, for every connection whose send failed.
RECURSIVE remove_disconnected(_, _)
remove_disconnected(reg, failed) ==
    IF failed = <<>> THEN [active |-> reg.active, users |-> reg.users]
    ELSE remove_disconnected(disconnect(reg, Head(failed), NoUser),
                             Tail(failed))

\* The list iterator of "for connection in self.active_connections" that
\* stops with an error when there is nothing to iterate.
next_connection_nonempty(list, idx) ==
    IF idx < Len(list) THEN [pc |-> "sending", fetched |-> <<list[idx + 1]>>]
    ELSE IF Len(list) = 0 THEN [pc |-> "raised", fetched |-> <<>>]
    ELSE [pc |-> "publish", fetched |-> <<>>]

\* The list iterator of "for connection in self.active_connections": it
\* keeps an index into the live list and stops when the index reaches the
\* list's current length.
next_connection(list, idx) ==
    IF idx < Len(list) THEN [pc |-> "sending", fetched |-> <<list[idx + 1]>>]
    ELSE [pc |-> "publish", fetched |-> <<>>]

\* connection.send_text succeeds on an open transport.
send_ok(c) == transport[c] = "open"

Received(box, field) == [box EXCEPT ![field] = @ + 1]

ReceivedText(box, text) == [box EXCEPT !.texts = Append(@, text)]

\* A Python str that holds a text.
PyStr(text) == [py |-> "str", v |-> [text |-> text]]

\* broadcast_plot_update: message = json.dumps({'type': 'plot_update',
\* 'data': plot_data, 'timestamp': ...}).
plot_update_message ==
    json_dumps(PyDict([type |-> "plot_update", data |-> "plot_data",
                       timestamp |-> "utcnow"]))

\* RedisClient.publish: what goes to the channel is json.dumps(message) of
\* the message it is given.
RedisClient_publish(message) == json_dumps(PyStr(message))

\* A handler's subscription ends with the handler.
Unsubscribed(c) ==
    /\ subscribed' = subscribed \ {c}
    /\ pubq' = [pubq EXCEPT ![c] = <<>>]

\* A client opens a socket on one of the endpoints; the handler calls
\* manager.connect(websocket), and the /ws/plots handler subscribes to
\* 'plot_updates'.  When the server does not answer, subscribe raises, and
\* so does the unsubscribe of the finally block: the handler is left before
\* manager.disconnect.
EndpointConnect(c) ==
    /\ transport[c] = "new"
    /\ LET reg == IF c \in LocalConns THEN connect(Registry, c, NoUser)
                  ELSE Registry
           fails == Endpoint(c) = "/ws/plots" /\ ~channel_up
       IN /\ active_connections' = reg.active
          /\ user_connections' = reg.users
          /\ transport' = [transport EXCEPT ![c] =
                               IF fails THEN "closed" ELSE "open"]
          /\ hpc' = [hpc EXCEPT ![c] = IF fails THEN "died" ELSE "loop"]
          /\ subscribed' = IF Endpoint(c) = "/ws/plots" /\ channel_up
                           THEN subscribed \cup {c} ELSE subscribed
    /\ UNCHANGED <<pubq, inbox, ping, channel_up, bpc, bidx, disconnected,
                   battempted, bstart, updates>>
    /\ UNCHANGED <<queryVars, coreVars, cacheVars, numVars>>

\* manager.connect(websocket, user_id) called by other code of the instance.
ManagerConnect(c, user_id) ==
    /\ c \in LocalConns
    /\ transport[c] = "new"
    /\ LET reg == connect(Registry, c, user_id)
       IN /\ active_connections' = reg.active
          /\ user_connections' = reg.users
    /\ transport' = [transport EXCEPT ![c] = "open"]
    /\ UNCHANGED <<hpc, subscribed, pubq, inbox, ping, channel_up, bpc, bidx,
                   disconnected, battempted, bstart, updates>>
    /\ UNCHANGED <<queryVars, coreVars, cacheVars, numVars>>

\* manager.disconnect(websocket, user_id) called by other code of the
\* instance, for any socket and identity.
ManagerDisconnect(c, user_id) ==
    /\ c \in LocalConns
    /\ LET reg == disconnect(Registry, c, user_id)
       IN /\ active_connections' = reg.active
          /\ user_connections' = reg.users
    /\ UNCHANGED <<transport, hpc, subscribed, pubq, inbox, ping, channel_up,
                   bpc, bidx, disconnected, battempted, bstart, updates>>
    /\ UNCHANGED <<queryVars, coreVars, cacheVars, numVars>>

\* The client closes the socket, or the transport breaks.
ClientClose(c) ==
    /\ transport[c] = "open"
    /\ transport' = [transport EXCEPT ![c] = "closed"]
    /\ UNCHANGED <<active_connections, user_connections, hpc, subscribed,
                   pubq, inbox, ping, channel_up, bpc, bidx, disconnected,
                   battempted, bstart, updates>>
    /\ UNCHANGED <<queryVars, coreVars, cacheVars, numVars>>

\* A client sends {"type": "ping"} on its open socket.
ClientPing(c) ==
    /\ ping = NoPing
    /\ transport[c] = "open"
    /\ hpc[c] = "loop"
    /\ ping' = [conn |-> c, state |-> "sent"]
    /\ UNCHANGED <<active_connections, user_connections, transport, hpc,
                   subscribed, pubq, inbox, channel_up, bpc, bidx,
                   disconnected, battempted, bstart, updates>>
    /\ UNCHANGED <<queryVars, coreVars, cacheVars, numVars>>

\* receive_text returns the ping.  websocket_endpoint parses it and sends
\* the pong; plot_updates_websocket drops what it received.
HandlerPing(c) ==
    /\ ping = [conn |-> c, state |-> "sent"]
    /\ transport[c] = "open"
    /\ hpc[c] = "loop"
    /\ ping' = [conn |-> c, state |-> "received"]
    /\ inbox' = IF Endpoint(c) = "/ws"
                THEN [inbox EXCEPT ![c] = Received(@, "pongs")]
                ELSE inbox
    /\ UNCHANGED <<active_connections, user_connections, transport, hpc,
                   subscribed, pubq, channel_up, bpc, bidx, disconnected,
                   battempted, bstart, updates>>
    /\ UNCHANGED <<queryVars, coreVars, cacheVars, numVars>>

\* receive_text returns a text that is not JSON.  In websocket_endpoint
\* json.loads raises, no except clause matches, and the handler is left
\* with the socket still registered; plot_updates_websocket drops the text.
HandlerUnparsable(c) ==
    /\ transport[c] = "open"
    /\ hpc[c] = "loop"
    /\ Endpoint(c) = "/ws"
    /\ hpc' = [hpc EXCEPT ![c] = "died"]
    /\ transport' = [transport EXCEPT ![c] = "closed"]
    /\ UNCHANGED <<active_connections, user_connections, subscribed, pubq,
                   inbox, ping, channel_up, bpc, bidx, disconnected,
                   battempted, bstart, updates>>
    /\ UNCHANGED <<queryVars, coreVars, cacheVars, numVars>>

\* receive_text raises WebSocketDisconnect.  websocket_endpoint calls
\* manager.disconnect(websocket); plot_updates_websocket breaks out of the
\* loop and runs its finally block, whose unsubscribe raises when the
\* server does not answer, before manager.disconnect is reached.
HandlerClosed(c) ==
    /\ transport[c] = "closed"
    /\ hpc[c] = "loop"
    /\ LET fails == c \in subscribed /\ ~channel_up
           reg == IF c \in LocalConns /\ ~fails
                  THEN disconnect(Registry, c, NoUser) ELSE Registry
       IN /\ active_connections' = reg.active
          /\ user_connections' = reg.users
          /\ hpc' = [hpc EXCEPT ![c] = IF fails THEN "died" ELSE "done"]
    /\ Unsubscribed(c)
    /\ UNCHANGED <<transport, inbox, ping, channel_up, bpc, bidx,
                   disconnected, battempted, bstart, updates>>
    /\ UNCHANGED <<queryVars, coreVars, cacheVars, numVars>>

\* plot_updates_websocket: pubsub.get_message returns a message of the
\* channel and the handler sends its data to its own client.
HandlerForward(c) ==
    /\ hpc[c] = "loop"
    /\ c \in subscribed
    /\ pubq[c] # <<>>
    /\ transport[c] = "open"
    /\ pubq' = [pubq EXCEPT ![c] = Tail(@)]
    /\ inbox' = [inbox EXCEPT ![c] = ReceivedText(@, Head(pubq[c]))]
    /\ UNCHANGED <<active_connections, user_connections, transport, hpc,
                   subscribed, ping, channel_up, bpc, bidx, disconnected,
                   battempted, bstart, updates>>
    /\ UNCHANGED <<queryVars, coreVars, cacheVars, numVars>>

\* broadcast_plot_update is called: manager.broadcast starts its loop and
\* either suspends in the first send or, with nothing to iterate, returns.
BroadcastBegin ==
    /\ bpc = "idle"
    /\ updates < MaxUpdates
    /\ updates' = updates + 1
    /\ bstart' = {c \in Conns : transport[c] = "open"}
    /\ disconnected' = <<>>
    /\ LET n == next_connection(active_connections, 0)
       IN /\ bpc' = n.pc
          /\ battempted' = n.fetched
          /\ bidx' = Len(n.fetched)
    /\ UNCHANGED <<active_connections, user_connections, transport, hpc,
                   subscribed, pubq, inbox, ping, channel_up>>
    /\ UNCHANGED <<queryVars, coreVars, cacheVars, numVars>>

\* The send the loop was suspended in ends, by returning or by raising;
\* the iterator is asked for the next connection, and when there is none
\* the failed connections are removed.
BroadcastSend ==
    /\ bpc = "sending"
    /\ LET connection == battempted[Len(battempted)]
           failed == IF send_ok(connection) THEN disconnected
                     ELSE Append(disconnected, connection)
           n == next_connection(active_connections, bidx)
           reg == IF n.pc = "sending" THEN Registry
                  ELSE remove_disconnected(Registry, failed)
       IN /\ inbox' = IF send_ok(connection)
                      THEN [inbox EXCEPT ![connection] =
                                ReceivedText(@, plot_update_message)]
                      ELSE inbox
          /\ disconnected' = failed
          /\ bpc' = n.pc
          /\ battempted' = battempted \o n.fetched
          /\ bidx' = bidx + Len(n.fetched)
          /\ active_connections' = reg.active
          /\ user_connections' = reg.users
    /\ UNCHANGED <<transport, hpc, subscribed, pubq, ping, channel_up, bstart,
                   updates>>
    /\ UNCHANGED <<queryVars, coreVars, cacheVars, numVars>>

\* redis_client.publish('plot_updates', message): every subscription of
\* the channel gets the message; a server that does not answer makes
\* publish return False.
BroadcastPublish ==
    /\ bpc = "publish"
    /\ bpc' = "idle"
    /\ pubq' = [c \in Conns |->
                   IF channel_up /\ c \in subscribed
                   THEN Append(pubq[c], RedisClient_publish(plot_update_message))
                   ELSE pubq[c]]
    /\ UNCHANGED <<active_connections, user_connections, transport, hpc,
                   subscribed, inbox, ping, channel_up, bidx, disconnected,
                   battempted, bstart, updates>>
    /\ UNCHANGED <<queryVars, coreVars, cacheVars, numVars>>

\* The Redis server stops answering, or answers again.
ChannelToggle ==
    /\ channel_up' = ~channel_up
    /\ UNCHANGED <<active_connections, user_connections, transport, hpc,
                   subscribed, pubq, inbox, ping, bpc, bidx, disconnected,
                   battempted, bstart, updates>>
    /\ UNCHANGED <<queryVars, coreVars, cacheVars, numVars>>

MaxPersonal == 1

\* ConnectionManager.send_personal_message: the socket mapped to the
\* identity is sent the message; when the send raises, the socket is
\* disconnected together with the identity.  An identity that is not
\* mapped makes the call a no-op.
SendPersonalMessage(user_id) ==
    /\ user_id \in DOMAIN user_connections
    /\ LET websocket == user_connections[user_id]
           reg == IF send_ok(websocket) THEN Registry
                  ELSE disconnect(Registry, websocket, user_id)
       IN /\ send_ok(websocket) => inbox[websocket].personal < MaxPersonal
          /\ inbox' = IF send_ok(websocket)
                      THEN [inbox EXCEPT ![websocket] = Received(@, "personal")]
                      ELSE inbox
          /\ active_connections' = reg.active
          /\ user_connections' = reg.users
    /\ UNCHANGED <<transport, hpc, subscribed, pubq, ping, channel_up, bpc,
                   bidx, disconnected, battempted, bstart, updates>>
    /\ UNCHANGED <<queryVars, coreVars, cacheVars, numVars>>

WsNext ==
    \/ \E c \in Conns : EndpointConnect(c)
    \/ \E c \in Conns : ClientClose(c)
    \/ \E c \in Conns : HandlerUnparsable(c)
    \/ \E c \in Conns : HandlerClosed(c)
    \/ \E c \in Conns : HandlerForward(c)
    \/ BroadcastBegin
    \/ BroadcastSend
    \/ BroadcastPublish
    \/ ChannelToggle

RegistryNext ==
    \/ \E c \in Conns, user_id \in UserIds : ManagerConnect(c, user_id)
    \/ \E c \in Conns, user_id \in UserIds : ManagerDisconnect(c, user_id)
    \/ \E user_id \in UserIds : SendPersonalMessage(user_id)
    \/ \E c \in Conns : ClientClose(c)
    \/ BroadcastBegin
    \/ BroadcastSend
    \/ BroadcastPublish

RegistrySpec == Init /\ [][RegistryNext]_vars

HeartbeatNext ==
    \/ \E c \in Conns : EndpointConnect(c)
    \/ \E c \in Conns : ClientClose(c)
    \/ \E c \in Conns : ClientPing(c)
    \/ \E c \in Conns : HandlerPing(c)
    \/ \E c \in Conns : HandlerClosed(c)

HeartbeatSpec == Init /\ [][HeartbeatNext]_vars

WsSpec == Init /\ [][WsNext]_vars

\* The event loop runs every task that is ready: a send that ended is
\* resumed, publish is called, and a handler reads the message waiting in
\* its subscription.
WsFairSpec ==
    /\ WsSpec
    /\ WF_vars(BroadcastSend)
    /\ WF_vars(BroadcastPublish)
    /\ \A c \in Conns : WF_vars(HandlerForward(c))

(***************************************************************************)
(* Plot numbers: the unique plot_number column under repeated ingestion    *)
(***************************************************************************)

MaxJobs == 2

\* plot_number values a client gives to the create endpoint.
GivenNumbers == {"A1", "A2"}

\* Line 94: properties.get('PLOT_NUM', f'SHP_{processed + 1}') for a
\* feature without the attribute.
placeholder_plot_number(processed_) == "SHP_" \o ToString(processed_ + 1)

\* INSERT into plots under the unique constraint of plot_number: the row is
\* stored, or the store raises IntegrityError.
insert_unique(numbers, plot_number) ==
    IF plot_number \in numbers
    THEN [numbers |-> numbers, raised |-> TRUE]
    ELSE [numbers |-> numbers \cup {plot_number}, raised |-> FALSE]

\* process_shapefile starts on a dataset of n features, none of which has
\* a PLOT_NUM attribute.
NumberedJobStart(n) ==
    /\ npc \in {"idle", "ended"}
    /\ njobs < MaxJobs
    /\ njobs' = njobs + 1
    /\ ntotal' = n
    /\ nprocessed' = 0
    /\ noutcome' = NoOutcome
    /\ npc' = "loop"
    /\ UNCHANGED plot_numbers
    /\ UNCHANGED <<queryVars, coreVars, cacheVars, wsVars>>

\* Lines 72-102: one feature; create_plot inserts and commits the row, and
\* an IntegrityError leaves the loop for the except branch, which returns
\* the failure dict.
NumberedFeature ==
    /\ npc = "loop"
    /\ nprocessed < ntotal
    /\ LET r == insert_unique(plot_numbers,
                              placeholder_plot_number(nprocessed))
       IN /\ plot_numbers' = r.numbers
          /\ IF r.raised
             THEN /\ noutcome' = [status |-> "FAILURE",
                                  message |-> "IntegrityError"]
                  /\ npc' = "ended"
                  /\ UNCHANGED nprocessed
             ELSE /\ nprocessed' = nprocessed + 1
                  /\ UNCHANGED <<noutcome, npc>>
    /\ UNCHANGED <<ntotal, njobs>>
    /\ UNCHANGED <<queryVars, coreVars, cacheVars, wsVars>>

\* Lines 104-114: after the last feature the success dict is returned.
NumberedJobEnd ==
    /\ npc = "loop"
    /\ nprocessed = ntotal
    /\ noutcome' = [status |-> "SUCCESS", message |-> ""]
    /\ npc' = "ended"
    /\ UNCHANGED <<plot_numbers, ntotal, nprocessed, njobs>>
    /\ UNCHANGED <<queryVars, coreVars, cacheVars, wsVars>>

\* The create endpoint with a plot_number of the client's choice.
NumberedCreate(plot_number) ==
    /\ ~insert_unique(plot_numbers, plot_number).raised
    /\ plot_numbers' = insert_unique(plot_numbers, plot_number).numbers
    /\ UNCHANGED <<npc, ntotal, nprocessed, noutcome, njobs>>
    /\ UNCHANGED <<queryVars, coreVars, cacheVars, wsVars>>

NumberingNext ==
    \/ \E n \in 1..MaxFeatures : NumberedJobStart(n)
    \/ NumberedFeature
    \/ NumberedJobEnd
    \/ \E plot_number \in GivenNumbers : NumberedCreate(plot_number)

NumberingSpec == Init /\ [][NumberingNext]_vars

(***************************************************************************)
(* Properties                                                              *)
(***************************************************************************)

NumFeatures == Len(dataset.features)

NumMalformed ==
    Cardinality({n \in 1..NumFeatures : Malformed(dataset.features[n])})

\* What any other session reads from the plots table: the ids of the rows
\* committed so far.
ReaderView == {p.id : p \in committed}

JobEnded == wpc = "done"

\* C1: when the store refuses the write of a feature, the ended job has left
\* none of its parcels in the store.
C1_AllOrNothing == (JobEnded /\ error = "store error") => ReaderView = {}

\* C2: while the job runs, a reader sees none of the job's parcels or all of
\* them, never a strict non-empty subset.
C2_NoPartialView == Executing => ReaderView \in {{}, 1..NumFeatures}

\* C3: with no store error, a dataset of N features of which m are malformed
\* ends in success with total_processed = N - m and N - m created parcels.
C3_MalformedSkipped ==
    (JobEnded /\ error # "store error")
        => /\ result.status = "SUCCESS"
           /\ result.total_processed = NumFeatures - NumMalformed
           /\ Len(result.created_plots) = NumFeatures - NumMalformed

\* C4: with no store error, an ended job of a validated dataset leaves as many
\* records as the dataset has valid features; a dataset rejected by the
\* validation leaves none.
C4_RecordsEqualValidFeatures ==
    /\ upc = "rejected" => committed = {}
    /\ (JobEnded /\ error # "store error")
           => Cardinality(committed) = NumFeatures - NumMalformed

Monotone(log) == \A i, j \in 1..Len(log) : i <= j => log[i] <= log[j]

Reported100 == \E i \in 1..Len(progress_log) : progress_log[i] = 100

\* C5: the progress values written are non-decreasing, and an ended job (of
\* a dataset with at least one feature) has reported 100 percent or ended in
\* failure.
C5_ProgressReachesTotal ==
    /\ Monotone(progress_log)
    /\ (JobEnded /\ NumFeatures > 0)
           => (Reported100 \/ result.status = "FAILURE")

C7_CrashLeadsToFailed == (wpc = "crashed") ~> (celery.state = "FAILURE")

\* C8: after a poll has reported a terminal status, every later poll that
\* finds the job answers the same status and result.
C8_TerminalImmutable ==
    (terminal_reported.seen /\ answer.code = 200)
        => answer.body = terminal_reported.body

\* C8 happens: a terminal status was reported and a later poll found the job.
C8_Witness ==
    /\ terminal_reported.again
    /\ answer.code = 200
    /\ answer.body.status = "FAILURE"

\* C9: the status field of every answer that finds the job is one of
\* PENDING, PROGRESS, SUCCESS, FAILURE.
C9_StatusInEnum ==
    answer.code = 200
        => answer.body.status \in {"PENDING", "PROGRESS", "SUCCESS", "FAILURE"}

\* C10: a failed ingestion is recorded by the queue as FAILURE, with the error
\* detail, no created parcel and total_processed = 0.
C10_FailureRecorded ==
    (JobEnded /\ error # "")
        => /\ celery.state = "FAILURE"
           /\ celery.info.message = error
           /\ celery.info.created_plots = <<>>
           /\ celery.info.total_processed = 0

\* C11: an upload whose file set does not parse as a dataset is rejected
\* before any ingestion job exists: no process_shapefile job is submitted,
\* no job-info cache entry is written and no parcel is created.
C11_InvalidRejectedBeforeJob ==
    ~dataset.openable
        => /\ upc # "accepted"
           /\ wpc = "none"
           /\ TaskKey \notin DOMAIN cache
           /\ pending = {}
           /\ committed = {}

\* C11 happens: validation has answered that the staged files are no
\* dataset and the upload has been rejected.
C11_Witness ==
    /\ upc = "rejected"
    /\ upload_exc.type = "HTTPException"
    /\ ~dataset.openable
    /\ file_paths = {"shp", "dbf"}

\* C12: the rejection that upload_shapefile raises for an invalid dataset
\* reaches the caller with the client-error code it was raised with, never
\* as the generic internal error.
C12_ValidationErrorKept ==
    (upc = "rejected" /\ upload_exc.type = "HTTPException")
        => upload_answer.code = upload_exc.status_code

UploadAccept == \E redisUp \in BOOLEAN : UploadSubmit(TRUE, redisUp)

\* C13: whenever a valid dataset is staged, upload_shapefile can return the
\* job handle, whatever the state of the ingestion jobs that occupy the
\* workers.
C13_SubmitNeverWaitsForJobs ==
    (upc = "staged" /\ validate_shapefile(file_paths, fs, dataset).valid)
        => ENABLED UploadAccept

\* C14 (helper): a radius query that got its rows in time from a working
\* store.
QueryNearServed ==
    \E c \in Centres, r \in Radii, limit \in Limits :
        get_plots_near_point(c, r, limit, TRUE, TRUE)

\* C14: whichever path a radius query takes, it returns a set that the
\* direct path returns for the same table, centre, radius and limit: the
\* same status filter and the same effect of the limit.
C14_PathsAgree ==
    [][QueryNearServed
         => qans'.ids \in direct_path(plots, qreq'.centre, qreq'.radius_km,
                                      qreq'.limit)]_vars

\* C15: the answer to a radius query whose wait for the job ran out differs
\* in kind from the answer a failing store produces.
C15_TimeoutDistinct ==
    (qreq.op = "near" /\ qexc.type = "TimeoutError")
        => qans.code
             # query_except([type |-> "DatabaseError", detail |-> ""]).code

\* The ring without its closing point, if it came closed.
OpenRing(ring) ==
    IF Len(ring) > 1 /\ ring[1] = ring[Len(ring)]
    THEN SubSeq(ring, 1, Len(ring) - 1)
    ELSE ring

\* The point lies strictly inside the convex ring: strictly on the same
\* side of the edge from each vertex to the next one round the ring.
InRing(p, ring) ==
    LET r == OpenRing(ring)
        n == Len(r)
        next(i) == r[(i % n) + 1]
    IN /\ n >= 3
       /\ \/ \A i \in 1..n : Cross(r[i], next(i), p) > 0
          \/ \A i \in 1..n : Cross(r[i], next(i), p) < 0

\* C16: a polygon query that is answered returns exactly the parcels of the
\* table that are available and lie within the ring, whatever creations,
\* status updates and deletions came before.
C16_AreaExact ==
    [][(QueryArea /\ qans'.code = 200)
         => qans'.ids = {id \in DOMAIN plots :
                            /\ plots[id].status = "available"
                            /\ InRing(plots[id].at, qreq'.ring)}]_vars

\* C16 happens: a query on the square returned parcel 1 and left out
\* parcel 2, which lies within the square and is sold.
C16_Witness ==
    /\ qreq.op = "area"
    /\ qreq.ring = Square
    /\ qans.code = 200
    /\ qans.ids = {1}
    /\ 2 \in DOMAIN plots
    /\ plots[2].status = "sold"
    /\ InRing(plots[2].at, Square)

\* The status with which the endpoints of this module refuse a request.
ValidationErrorCode == 400

\* C17: a polygon query whose ring has fewer than three distinct points is
\* refused as invalid, and the store is not queried.
C17_FlatRingRejected ==
    (qreq.op = "area" /\ Cardinality(Points(qreq.ring)) < 3)
        => (qans.code = ValidationErrorCode /\ ~qreq.sent)

\* C18 (helper): a call of the cache client that finds the store
\* unreachable, or a set whose value cannot be serialized.
CacheCallFailing ==
    \E key \in CacheKeys :
        \/ CacheGet(key, FALSE)
        \/ CacheDelete(key, FALSE)
        \/ \E val \in PyValues, expire \in Ttls :
               \/ CacheSet(key, val, expire, FALSE)
               \/ ~json_serializable(val) /\ CacheSet(key, val, expire, TRUE)

\* C18: a cache call that fails changes nothing in the store and returns
\* to its caller without an exception; a failing get returns None.
C18_BestEffort ==
    [][CacheCallFailing
         => /\ rstore' = rstore
            /\ ~rret'.raised
            /\ rret'.op = "get" => rret'.out = None]_vars

\* C18 happens: a set found the store unreachable, and the entry that was
\* under its key is still there.
C18_Witness ==
    /\ rret.op = "set"
    /\ ~rret.up
    /\ ~rret.raised
    /\ rret.key \in DOMAIN rstore
    /\ Live(rstore, rret.key, now)

\* C19 as stated: a get of a key, with the store reachable, returns the
\* value of the last set of that key if no set or delete of the key came
\* since and the ttl has not elapsed, and None once it has elapsed.
C19_RoundTripEveryValue ==
    [][\A key \in CacheKeys :
          (CacheGet(key, TRUE) /\ key \in DOMAIN written)
              => rret'.out = IF now < written[key].until
                             THEN written[key].v
                             ELSE None]_vars

\* C19 amended: the same for the values that JSON spells and reads back as
\* themselves.
C19_RoundTrip ==
    [][\A key \in CacheKeys :
          (/\ CacheGet(key, TRUE)
           /\ key \in DOMAIN written
           /\ JsonExact(written[key].v))
              => rret'.out = IF now < written[key].until
                             THEN written[key].v
                             ELSE None]_vars

\* C19 happens: a payload was set, its ttl has elapsed, and a get of the
\* key has returned None although the store still holds the entry.
C19_Witness ==
    /\ rret.op = "get"
    /\ rret.up
    /\ rret.out = None
    /\ rret.key \in DOMAIN written
    /\ JsonExact(written[rret.key].v)
    /\ now >= written[rret.key].until
    /\ rret.key \in DOMAIN rstore

\* C20: with the cache store unreachable for its get and for its set,
\* get_geo_statistics answers what it answers on a miss: the payload
\* computed from the table at that moment, or the failure of the wait for
\* it; nothing of the cache's failure reaches the caller.
C20_CacheDownAsMiss ==
    [][\A loc \in LocFilters, timely \in BOOLEAN, storeOk \in BOOLEAN :
          get_geo_statistics(loc, FALSE, FALSE, timely, storeOk)
              => sans' = IF timely
                         THEN [code |-> 200,
                               body |-> PyDict(calculate_plot_statistics(
                                                   plots, loc, storeOk))]
                         ELSE [code |-> 500, body |-> None]]_vars

\* C20 happens: the statistics were answered afresh while the store holds
\* an unexpired entry under the request's key with another payload, which
\* a reachable cache would have returned or replaced.
C20_Witness ==
    /\ sreq.op = "statistics"
    /\ sans.code = 200
    /\ sans.body = PyDict(calculate_plot_statistics(plots, sreq.location_id,
                                                    TRUE))
    /\ plots # EmptyDict
    /\ Live(rstore, cache_key(sreq.location_id), now)
    /\ json_loads(rstore[cache_key(sreq.location_id)].text) # sans.body

\* The changes of status the life cycle of a parcel allows.
StatusEdges ==
    {<<"available", "locked">>, <<"locked", "pending_payment">>,
     <<"pending_payment", "sold">>, <<"locked", "available">>}

\* C28: whenever the status of a parcel changes, the change is one of the
\* edges AVAILABLE->LOCKED, LOCKED->PENDING_PAYMENT, PENDING_PAYMENT->SOLD,
\* LOCKED->AVAILABLE.
C28_StatusEdges ==
    [][\A id \in PlotIds :
          (/\ id \in DOMAIN plots
           /\ id \in DOMAIN plots'
           /\ plots'[id].status # plots[id].status)
              => <<plots[id].status, plots'[id].status>> \in StatusEdges]_vars

\* C29: every parcel of the record store has a valid geometry.
C29_GeometryValid == \A p \in committed : ~Malformed(p.geom)

\* C30 (helper): a status poll that reads the job info.
PollReads == \E user \in Users, redisUp \in BOOLEAN : PollBegin(user, redisUp)

\* C30: a status poll answers NotFound only if the job was not accepted or
\* its job-info entry is no longer in the cache store.
C30_NotFoundOnlyIfGone ==
    [][(PollReads /\ answer'.code = 404)
         => ~(upc = "accepted" /\ TaskKey \in DOMAIN cache)]_vars

Occurrences(list, x) == Cardinality({i \in DOMAIN list : list[i] = x})

\* C21: when the loop of broadcast has ended, every connection whose send
\* failed has been removed from the registry: it is neither in the active
\* list nor in the identity map.
C21_FailedRemoved ==
    bpc = "publish"
        => \A c \in Range(disconnected) :
               /\ c \notin Range(active_connections)
               /\ c \notin Range(user_connections)

\* C22: when the loop of broadcast has ended, every connection that was
\* open and registered when the broadcast began and is still registered was
\* fetched by the loop exactly once, whatever connected or disconnected
\* while the loop was suspended in a send.
C22_NoneSkipped ==
    bpc = "publish"
        => \A c \in bstart \cap Range(active_connections) :
               Occurrences(battempted, c) = 1

Delivered(c) == inbox[c].texts # <<>>

\* C23: a client that was connected, to either instance and on either
\* endpoint, when an update was accepted eventually receives the update,
\* unless it disconnects or the Redis server stops answering.
C23_EventuallyDelivered ==
    \A c \in Conns :
        (c \in bstart)
            ~> (Delivered(c) \/ transport[c] # "open" \/ ~channel_up)

\* C24: a connection whose handler has terminated, for whatever reason, is
\* in neither the active list nor the identity map.
C24_ClosedRemoved ==
    \A c \in LocalConns :
        hpc[c] \in {"done", "died"}
            => /\ c \notin Range(active_connections)
               /\ c \notin Range(user_connections)

\* C25: in every state of the registry, for every socket and identity,
\* registered or not, disconnect raises nothing, and a second disconnect
\* with the same arguments raises nothing and leaves the registry as the
\* first one left it.
C25_DisconnectIdempotent ==
    \A c \in LocalConns, user_id \in UserIds :
        LET once == disconnect(Registry, c, user_id)
            twice == disconnect([active |-> once.active, users |-> once.users],
                                c, user_id)
        IN /\ ~once.raised
           /\ ~twice.raised
           /\ twice.active = once.active
           /\ twice.users = once.users

\* A socket that was registered under an identity and has been removed by
\* disconnect, together with its identity, while its transport is open.
C25_Witness ==
    /\ transport["a"] = "open"
    /\ "a" \notin Range(active_connections)
    /\ user_connections = EmptyDict
    /\ transport["b"] = "open"
    /\ "b" \in Range(active_connections)

\* C26: a broadcast that begins while no connection is registered returns
\* without an error, sends nothing and leaves both collections of the
\* registry as they were.
C26_EmptyBroadcastNoOp ==
    [][(BroadcastBegin /\ active_connections = <<>>)
          => /\ bpc' = "publish"
             /\ inbox' = inbox
             /\ disconnected' = <<>>
             /\ active_connections' = active_connections
             /\ user_connections' = user_connections]_vars

\* A broadcast over an empty list has returned, in an instance that had
\* connections before.
C26_Witness ==
    /\ bpc = "publish"
    /\ updates = 1
    /\ battempted = <<>>
    /\ active_connections = <<>>
    /\ \E c \in LocalConns : transport[c] # "new"

\* C27: a ping that a handler has received, on either endpoint, has been
\* answered with a pong on the same connection.
C27_PingAnswered ==
    \A c \in Conns :
        ping = [conn |-> c, state |-> "received"] => inbox[c].pongs > 0

\* A radius query takes the job path while the store raises in the task,
\* although the table holds a parcel inside the radius.
JobStoreError ==
    \E c \in Centres, r \in Radii, limit \in Limits :
        /\ r > 10
        /\ find_plots_in_radius(plots, c, r, TRUE) # {}
        /\ get_plots_near_point(c, r, limit, TRUE, FALSE)

\* C31: a radius query whose background task met a store error is not
\* answered with a success.
C31_StoreErrorNotSuccess ==
    [][JobStoreError => qans'.code # 200]_vars

\* Every content the plots table can have for the statistics requests.
StatsTables ==
    {EmptyDict}
        \cup {Put(EmptyDict, 1, [status |-> st, at |-> at]) :
                  st \in PlotStatuses, at \in Positions}

\* The aggregates of the request's filter, over every content of the table.
Aggregates(loc) ==
    {PyDict(calculate_plot_statistics(T, loc, TRUE)) : T \in StatsTables}

\* C32: a statistics request answered with a success carries an aggregate
\* that was computed from the record store for the request's filter, be it
\* computed for this request or read from the cache.
C32_ResponseIsAggregate ==
    (sreq.op = "statistics" /\ sans.code = 200)
        => sans.body \in Aggregates(sreq.location_id)

\* C33: what the cache holds under a statistics key is an aggregate that
\* was computed from the record store for a filter of that key.
C33_OnlyAggregatesCached ==
    \A loc \in LocFilters :
        cache_key(loc) \in DOMAIN rstore
            => \E other \in LocFilters :
                   /\ cache_key(other) = cache_key(loc)
                   /\ json_loads(rstore[cache_key(loc)].text)
                          \in Aggregates(other)

\* C34: a statistics response that carries an aggregate carries an
\* aggregate of the request's own filter: requests whose filters select
\* different aggregates do not share a cache key.
C34_ServedOwnAggregate ==
    (/\ sreq.op = "statistics"
     /\ sans.code = 200
     /\ \E other \in LocFilters : sans.body \in Aggregates(other))
        => sans.body \in Aggregates(sreq.location_id)

\* C35: the created_plots of an ended job's result are exactly the parcels
\* of the job that the store shows, whether the job succeeded or failed.
C35_ResultAgreesWithStore ==
    JobEnded => Range(result.created_plots) = ReaderView

\* C36: every socket that the identity map holds is also in the list of
\* active connections.
C36_IdentityMapInActive ==
    \A user_id \in DOMAIN user_connections :
        user_connections[user_id] \in Range(active_connections)

\* C37: all the texts that clients have received for an update are the
\* same text, whether a text came from the local broadcast or was
\* forwarded from the channel.
C37_SamePayload ==
    \A c \in Conns, d \in Conns :
        \A i \in DOMAIN inbox[c].texts, j \in DOMAIN inbox[d].texts :
            inbox[c].texts[i] = inbox[d].texts[j]

\* A poll of the accepted job by an identity that did not submit it.
PollByOther(user, redisUp) ==
    /\ upc = "accepted"
    /\ user # owner
    /\ PollBegin(user, redisUp)

C39_NumbersNeverCollide == noutcome.message # "IntegrityError"

====
